---- MODULE Spec2Model ----
(***************************************************************************)
(* The evaluator core of the scripting language in language/interpreter.cc *)
(* (struct Eval and the entry point run), as a state machine whose state   *)
(* is the heap of Environments, the heap of Objects and the out-parameters *)
(* of run.  One action is one call of run on a parsed tree.  Value,        *)
(* Environment and Ast live in interpreter.hpp / parser.hpp and are        *)
(* modelled from their described contracts.                                *)
(***************************************************************************)
EXTENDS Integers, Sequences, FiniteSets, TLC

VARIABLES
    envs,     \* heap of Environments; envs[1] is the root Environment given to run
    objs,     \* heap of shared containers: Object property maps and Array element
              \* sequences (shared ownership: a Value holds a handle)
    val,      \* run's out-parameter `Value& val`
    msg,      \* run's out-parameter `string& msg`
    ret,      \* how the last run ended: "true", "false", "uncaught", "crash", or "none"
    log,      \* observation trace of the last run (evaluations, calls, postfix steps)
    err,      \* the failure that ended the last run's evaluation, NoError if none
    decls,    \* history: the bindings eval_assignment created, with their first value
    prog,     \* the last input: what the parser made of the text given to run
    runs      \* number of runs made so far

vars == <<envs, objs, val, msg, ret, log, err, decls, prog, runs>>

\* the evaluation steps one run may take: the host call stack is finite
MaxFuel == 80

\* ------------------------------------------------------------------ Value
Unit == [type |-> "Undefined"]
LongV(n) == [type |-> "Long", v |-> n]
BoolV(b) == [type |-> "Bool", v |-> b]
StringV(s) == [type |-> "String", v |-> s]
ArrayV(ref) == [type |-> "Array", ref |-> ref]
ObjectV(ref) == [type |-> "Object", ref |-> ref]
FunctionV(params, fn) == [type |-> "Function", params |-> params, fn |-> fn]

\* ------------------------------------------------------------------ failures
NoError == [kind |-> "none", what |-> ""]
RuntimeError(what) == [kind |-> "runtime_error", what |-> what]
LogicError(what) == [kind |-> "logic_error", what |-> what]
Signal(what) == [kind |-> "signal", what |-> what]
TypeMismatch == RuntimeError("TypeMismatch")
UnboundName == RuntimeError("UnboundName")
ImmutableBinding == RuntimeError("ImmutableBinding")
ArgumentError == RuntimeError("arguments error...")

R(v, st) == [val |-> v, st |-> st]
Failed(st) == st.err.kind # "none"
Throw(st, e) == [st EXCEPT !.err = e]
Note(st, ev) == [st EXCEPT !.log = Append(@, ev)]

\* ------------------------------------------------------------------ Ast
Node(tag, nodes, line) ==
    [tag |-> tag, original_tag |-> tag, nodes |-> nodes, token |-> "",
     is_token |-> FALSE, line |-> line, column |-> 1]
Token(tag, token, line) ==
    [tag |-> tag, original_tag |-> tag, nodes |-> <<>>, token |-> token,
     is_token |-> TRUE, line |-> line, column |-> 1]
Postfix(original_tag, ast) == [ast EXCEPT !.original_tag = original_tag]

\* ------------------------------------------------------------------ Environment
EmptyEnv == [dic |-> <<>>, outers |-> <<>>, obj |-> 0]

RECURSIVE EnvOwner(_, _, _)
RECURSIVE OuterOwner(_, _, _, _)
\* the nearest scope (self first, then the outer scopes in order) that binds s; 0 if none
EnvOwner(es, e, s) ==
    IF s \in DOMAIN es[e].dic THEN e ELSE OuterOwner(es, es[e].outers, 1, s)
OuterOwner(es, outers, i, s) ==
    IF i > Len(outers) THEN 0
    ELSE LET o == EnvOwner(es, outers[i], s)
         IN IF o # 0 THEN o ELSE OuterOwner(es, outers, i + 1, s)

EnvHas(es, e, s) == EnvOwner(es, e, s) # 0

EnvGet(st, e, s) ==
    LET o == EnvOwner(st.envs, e, s)
    IN IF o = 0 THEN R(Unit, Throw(st, UnboundName))
       ELSE R(st.envs[o].dic[s].val, st)

EnvInitialize(st, e, s, v, mut) ==
    LET d == st.envs[e].dic
        d2 == [n \in (DOMAIN d) \cup {s} |->
                  IF n = s THEN [val |-> v, mut |-> mut] ELSE d[n]]
    IN [st EXCEPT !.envs[e].dic = d2]

EnvAssign(st, e, s, v) ==
    LET o == EnvOwner(st.envs, e, s)
    IN IF o = 0 THEN Throw(st, UnboundName)
       ELSE IF ~st.envs[o].dic[s].mut THEN Throw(st, ImmutableBinding)
       ELSE [st EXCEPT !.envs[o].dic[s].val = v]

EnvAppendOuter(st, e, outer) == [st EXCEPT !.envs[e].outers = Append(@, outer)]

EnvSetObject(st, e, ref) == [st EXCEPT !.envs[e].obj = ref]

\* make_shared<Environment>(): a fresh Environment on the heap; its handle is Len(envs)
NewEnvironment(st) == [st EXCEPT !.envs = Append(@, EmptyEnv)]

\* ------------------------------------------------------------------ conversions
Digits == "0123456789"
DigitOf(c) == CHOOSE d \in 0..9 : SubSeq(Digits, d + 1, d + 1) = c

RECURSIVE stol(_)
stol(s) ==
    IF Len(s) = 0 THEN 0
    ELSE stol(SubSeq(s, 1, Len(s) - 1)) * 10 + DigitOf(SubSeq(s, Len(s), Len(s)))

RECURSIVE NatStr(_)
NatStr(n) ==
    IF n < 10 THEN SubSeq(Digits, n + 1, n + 1)
    ELSE NatStr(n \div 10) \o SubSeq(Digits, (n % 10) + 1, (n % 10) + 1)

\* Value::str(): base 10 for Long, "true"/"false" for Bool, the text for String
ValueStr(v) ==
    CASE v.type = "Long" -> IF v.v < 0 THEN "-" \o NatStr(0 - v.v) ELSE NatStr(v.v)
      [] v.type = "Bool" -> IF v.v THEN "true" ELSE "false"
      [] v.type = "String" -> v.v
      [] OTHER -> "[" \o v.type \o "]"

\* ------------------------------------------------------------------ Value accessors
\* tag-checked accessors applied to the result of an evaluation: a failure of the
\* evaluation is passed on, a wrong tag fails with TypeMismatch
to_bool(r) ==
    IF Failed(r.st) THEN [val |-> FALSE, st |-> r.st]
    ELSE IF r.val.type = "Bool" THEN [val |-> r.val.v, st |-> r.st]
    ELSE [val |-> FALSE, st |-> Throw(r.st, TypeMismatch)]

to_long(r) ==
    IF Failed(r.st) THEN [val |-> 0, st |-> r.st]
    ELSE IF r.val.type = "Long" THEN [val |-> r.val.v, st |-> r.st]
    ELSE [val |-> 0, st |-> Throw(r.st, TypeMismatch)]

to_string(r) ==
    IF Failed(r.st) THEN [val |-> "", st |-> r.st]
    ELSE IF r.val.type = "String" THEN [val |-> r.val.v, st |-> r.st]
    ELSE [val |-> "", st |-> Throw(r.st, TypeMismatch)]

\* Value::get_property: the Object's property map; a missing property is Unit
get_property(st, v, name) ==
    IF v.type # "Object" THEN R(Unit, Throw(st, TypeMismatch))
    ELSE IF name \in DOMAIN st.objs[v.ref] THEN R(st.objs[v.ref][name], st)
    ELSE R(Unit, st)

Alphabet == "0123456789abcdefghijklmnopqrstuvwxyz"
CharCode(c) ==
    IF \E i \in 1..Len(Alphabet) : SubSeq(Alphabet, i, i) = c
    THEN CHOOSE i \in 1..Len(Alphabet) : SubSeq(Alphabet, i, i) = c
    ELSE 0

RECURSIVE StringLess(_, _)
StringLess(s, t) ==
    IF Len(t) = 0 THEN FALSE
    ELSE IF Len(s) = 0 THEN TRUE
    ELSE LET a == CharCode(SubSeq(s, 1, 1))
             b == CharCode(SubSeq(t, 1, 1))
         IN IF a # b THEN a < b
            ELSE StringLess(SubSeq(s, 2, Len(s)), SubSeq(t, 2, Len(t)))

\* the relational operators of Value: defined between two Values of the same tag
ValueLess(a, b) ==
    CASE a.type = "Long" -> a.v < b.v
      [] a.type = "Bool" -> (~a.v) /\ b.v
      [] a.type = "String" -> StringLess(a.v, b.v)
      [] OTHER -> FALSE

Ordered(a) == a.type \in {"Long", "Bool", "String"}

Compare(ope, a, b, st) ==
    IF a.type # b.type THEN R(Unit, Throw(st, TypeMismatch))
    ELSE IF ope = "==" THEN R(BoolV(a = b), st)
    ELSE IF ope = "!=" THEN R(BoolV(a # b), st)
    ELSE IF ~Ordered(a) THEN R(Unit, Throw(st, TypeMismatch))
    ELSE IF ope = "<=" THEN R(BoolV(~ValueLess(b, a)), st)
    ELSE IF ope = "<" THEN R(BoolV(ValueLess(a, b)), st)
    ELSE IF ope = ">=" THEN R(BoolV(~ValueLess(a, b)), st)
    ELSE R(BoolV(ValueLess(b, a)), st)

\* C++ integer division and remainder truncate toward zero
Abs(n) == IF n < 0 THEN 0 - n ELSE n
TruncDiv(a, b) ==
    IF (a < 0) = (b < 0) THEN Abs(a) \div Abs(b) ELSE 0 - (Abs(a) \div Abs(b))
TruncRem(a, b) == a - b * TruncDiv(a, b)

\* ------------------------------------------------------------------ Eval
RECURSIVE Eval(_, _, _)
RECURSIVE eval_statements_loop(_, _, _, _)
RECURSIVE eval_while(_, _, _)
RECURSIVE eval_if_loop(_, _, _, _)
RECURSIVE FunctionEval(_, _, _)
RECURSIVE bind_params(_, _, _, _, _, _)
RECURSIVE bind_params_every_argument(_, _, _, _, _, _)
RECURSIVE eval_call_loop(_, _, _, _, _)
RECURSIVE eval_logical_or_loop(_, _, _, _, _)
RECURSIVE eval_logical_and_loop(_, _, _, _, _)
RECURSIVE eval_bin_expression_loop(_, _, _, _, _)
RECURSIVE eval_object_loop(_, _, _, _, _)
RECURSIVE eval_array_loop(_, _, _, _, _)
RECURSIVE eval_interpolated_string_loop(_, _, _, _, _)

\* lines 49-54: every child but the last for its effect, then the last for its value
eval_statements_loop(ast, i, env, st) ==
    IF i = Len(ast.nodes) THEN Eval(ast.nodes[i], env, st)
    ELSE eval_statements_loop(ast, i + 1, env, Eval(ast.nodes[i], env, st).st)

eval_statements(ast, env, st) ==
    IF ast.is_token THEN Eval(ast, env, st)
    ELSE IF ast.nodes = <<>> THEN R(Unit, st)
    ELSE eval_statements_loop(ast, 1, env, st)

eval_while(ast, env, st) ==
    LET cond == to_bool(Eval(ast.nodes[1], env, st))
    IN IF Failed(cond.st) THEN R(Unit, cond.st)
       ELSE IF ~cond.val THEN R(Unit, cond.st)
       ELSE LET b == Eval(ast.nodes[2], env, cond.st)
            IN IF Failed(b.st) THEN R(Unit, b.st) ELSE eval_while(ast, env, b.st)

\* the mutated eval_if loop: a false condition falls into its own consequence
eval_if_loop_fallthrough(ast, i, env, st) ==
    IF i > Len(ast.nodes) THEN R(Unit, st)
    ELSE IF i = Len(ast.nodes) THEN Eval(ast.nodes[i], env, st)
    ELSE LET cond == to_bool(Eval(ast.nodes[i], env, st))
         IN IF Failed(cond.st) THEN R(Unit, cond.st)
            ELSE Eval(ast.nodes[i + 1], env, cond.st)

\* lines 71-82, with i counting the children from 1
eval_if_loop(ast, i, env, st) ==
    IF i > Len(ast.nodes) THEN R(Unit, st)
    ELSE IF i = Len(ast.nodes) THEN Eval(ast.nodes[i], env, st)
    ELSE LET cond == to_bool(Eval(ast.nodes[i], env, st))
         IN IF Failed(cond.st) THEN R(Unit, cond.st)
            ELSE IF cond.val THEN Eval(ast.nodes[i + 1], env, cond.st)
            ELSE eval_if_loop(ast, i + 2, env, cond.st)

eval_if(ast, env, st) == eval_if_loop(ast, 1, env, st)

eval_function(ast, env, st) ==
    LET ps == ast.nodes[1].nodes
        params == [i \in 1..Len(ps) |->
                      [name |-> ps[i].nodes[2].token,
                       mut |-> (ps[i].nodes[1].token = "mut")]]
        body == ast.nodes[2]
    IN R(FunctionV(params, [kind |-> "closure", body |-> body, env |-> env]), st)

\* the mutated lambda of eval_function: the body runs in the defining Environment
invoke_closure_in_defining_env(f, callEnv, st) ==
    LET s1 == EnvAppendOuter(st, callEnv, f.fn.env)
        s2 == Note(s1, [k |-> "body", callEnv |-> callEnv, def |-> f.fn.env,
                        heap |-> s1.envs])
        r == Eval(f.fn.body, f.fn.env, s2)
    IN IF Failed(r.st) THEN r
       ELSE R(r.val, Note(r.st, [k |-> "return", callEnv |-> callEnv,
                                 heap |-> r.st.envs]))

\* the lambda of eval_function, lines 97-100
invoke_closure(f, callEnv, st) ==
    LET s1 == EnvAppendOuter(st, callEnv, f.fn.env)
        s2 == Note(s1, [k |-> "body", callEnv |-> callEnv, def |-> f.fn.env,
                        heap |-> s1.envs])
        r == Eval(f.fn.body, callEnv, s2)
    IN IF Failed(r.st) THEN r
       ELSE R(r.val, Note(r.st, [k |-> "return", callEnv |-> callEnv,
                                 heap |-> r.st.envs]))

\* the mutated lambda of the DOT step: `this` is bound only if the name is free
invoke_method_keep_this(f, callEnv, st) ==
    LET s1 == IF "this" \in DOMAIN st.envs[callEnv].dic THEN st
              ELSE EnvInitialize(st, callEnv, "this", f.fn.val, FALSE)
        s2 == IF f.fn.val.type = "Object"
              THEN EnvSetObject(s1, callEnv, f.fn.val.ref) ELSE s1
    IN FunctionEval(f.fn.pf, callEnv, s2)

\* the lambda of the DOT step, lines 153-159
invoke_method(f, callEnv, st) ==
    LET s1 == EnvInitialize(st, callEnv, "this", f.fn.val, FALSE)
        s2 == IF f.fn.val.type = "Object"
              THEN EnvSetObject(s1, callEnv, f.fn.val.ref) ELSE s1
    IN FunctionEval(f.fn.pf, callEnv, s2)

\* f.data->eval(callEnv)
FunctionEval(f, callEnv, st) ==
    IF f.fn.kind = "closure" THEN invoke_closure(f, callEnv, st)
    ELSE invoke_method(f, callEnv, st)

\* the mutated parameter loop: runs over every supplied argument
bind_params_every_argument(params, args, iprm, env, callEnv, st) ==
    IF Failed(st) \/ iprm > Len(args) THEN st
    ELSE LET r == Eval(args[iprm], env, st)
         IN IF Failed(r.st) THEN r.st
            ELSE bind_params_every_argument(params, args, iprm + 1, env, callEnv,
                    IF iprm <= Len(params)
                    THEN Note(EnvInitialize(r.st, callEnv, params[iprm].name, r.val,
                                            params[iprm].mut),
                              [k |-> "bind", callEnv |-> callEnv, iprm |-> iprm,
                               name |-> params[iprm].name, value |-> r.val,
                               mut |-> params[iprm].mut])
                    ELSE r.st)

\* lines 121-126, with iprm counting from 1
bind_params(params, args, iprm, env, callEnv, st) ==
    IF Failed(st) \/ iprm > Len(params) THEN st
    ELSE LET r == Eval(args[iprm], env, st)
         IN IF Failed(r.st) THEN r.st
            ELSE bind_params(params, args, iprm + 1, env, callEnv,
                    Note(EnvInitialize(r.st, callEnv, params[iprm].name, r.val,
                                       params[iprm].mut),
                         [k |-> "bind", callEnv |-> callEnv, iprm |-> iprm,
                          name |-> params[iprm].name, value |-> r.val,
                          mut |-> params[iprm].mut]))

ArgLines(args) == [i \in 1..Len(args) |-> args[i].line]

\* the mutated call Environment: `self` is bound as a mutable name
new_call_env_self_mutable(v, st) ==
    LET s0 == NewEnvironment(st)
    IN EnvInitialize(s0, Len(s0.envs), "self", v, TRUE)

\* lines 117-119: the fresh call Environment, with `self` bound to the callee
new_call_env(v, st) ==
    LET s0 == NewEnvironment(st)
    IN EnvInitialize(s0, Len(s0.envs), "self", v, FALSE)

\* the mutated call step: the call Environment is chained to the caller's
call_arguments_dynamic_scope(ast, n, v, env, st) ==
    IF v.type # "Function" THEN R(Unit, Throw(st, TypeMismatch))
    ELSE LET params == v.params
             args == n.nodes
         IN IF Len(params) <= Len(args)
            THEN LET s0 == Note(st, [k |-> "call", fn |-> v, caller |-> env,
                                     callEnv |-> Len(st.envs) + 1,
                                     line |-> ast.line, params |-> Len(params),
                                     args |-> ArgLines(args)])
                     s1 == new_call_env(v, s0)
                     callEnv == Len(s1.envs)
                     s2 == bind_params(params, args, 1, env, callEnv,
                                       EnvAppendOuter(s1, callEnv, env))
                     s3 == EnvInitialize(s2, callEnv, "__LINE__", LongV(ast.line), FALSE)
                     s4 == EnvInitialize(s3, callEnv, "__COLUMN__", LongV(ast.column), FALSE)
                 IN IF Failed(s2) THEN R(Unit, s2) ELSE FunctionEval(v, callEnv, s4)
            ELSE R(Unit, Throw(Note(st, [k |-> "arity", line |-> ast.line,
                                         caller |-> env, params |-> Len(params),
                                         args |-> ArgLines(args)]),
                               ArgumentError))

\* the ARGUMENTS step, lines 111-135
call_arguments(ast, n, v, env, st) ==
    IF v.type # "Function" THEN R(Unit, Throw(st, TypeMismatch))
    ELSE LET params == v.params
             args == n.nodes
         IN IF Len(params) <= Len(args)
            THEN LET s0 == Note(st, [k |-> "call", fn |-> v, caller |-> env,
                                     callEnv |-> Len(st.envs) + 1,
                                     line |-> ast.line, params |-> Len(params),
                                     args |-> ArgLines(args)])
                     s1 == new_call_env(v, s0)
                     callEnv == Len(s1.envs)
                     s2 == bind_params(params, args, 1, env, callEnv, s1)
                     s3 == EnvInitialize(s2, callEnv, "__LINE__", LongV(ast.line), FALSE)
                     s4 == EnvInitialize(s3, callEnv, "__COLUMN__", LongV(ast.column), FALSE)
                 IN IF Failed(s2) THEN R(Unit, s2) ELSE FunctionEval(v, callEnv, s4)
            ELSE R(Unit, Throw(Note(st, [k |-> "arity", line |-> ast.line,
                                         caller |-> env, params |-> Len(params),
                                         args |-> ArgLines(args)]),
                               ArgumentError))

\* the mutated INDEX step: an index out of range yields Unit
call_index_unit(n, v, env, st) ==
    IF v.type # "Array" THEN R(Unit, Throw(st, TypeMismatch))
    ELSE LET idx == to_long(Eval(n, env, st))
             values == idx.st.objs[v.ref]
             out == IF 0 <= idx.val /\ idx.val < Len(values)
                    THEN values[idx.val + 1] ELSE Unit
         IN IF Failed(idx.st) THEN R(Unit, idx.st)
            ELSE R(out, Note(idx.st, [k |-> "index", arr |-> v, idx |-> idx.val,
                                      elems |-> values, after |-> out]))

\* the INDEX step, lines 136-142
call_index(n, v, env, st) ==
    IF v.type # "Array" THEN R(Unit, Throw(st, TypeMismatch))
    ELSE LET idx == to_long(Eval(n, env, st))
             values == idx.st.objs[v.ref]
             out == IF 0 <= idx.val /\ idx.val < Len(values)
                    THEN values[idx.val + 1] ELSE v
         IN IF Failed(idx.st) THEN R(Unit, idx.st)
            ELSE R(out, Note(idx.st, [k |-> "index", arr |-> v, idx |-> idx.val,
                                      elems |-> values, after |-> out]))

\* the DOT step, lines 143-165
call_dot(n, v, env, st) ==
    LET name == n.token
        prop == get_property(st, v, name)
        out == IF prop.val.type = "Function"
               THEN FunctionV(prop.val.params,
                              [kind |-> "method", val |-> v, pf |-> prop.val])
               ELSE prop.val
    IN IF Failed(prop.st) THEN prop
       ELSE R(out, Note(prop.st, [k |-> "dot", recv |-> v, name |-> name,
                                  prop |-> prop.val]))

eval_call_loop(ast, i, v, env, st) ==
    IF Failed(st) \/ i > Len(ast.nodes) THEN R(v, st)
    ELSE LET n == ast.nodes[i]
             r == CASE n.original_tag = "ARGUMENTS" -> call_arguments(ast, n, v, env, st)
                    [] n.original_tag = "INDEX" -> call_index(n, v, env, st)
                    [] n.original_tag = "DOT" -> call_dot(n, v, env, st)
                    [] OTHER -> R(Unit, Throw(st, LogicError("invalid internal condition.")))
         IN eval_call_loop(ast, i + 1, r.val, env, r.st)

eval_call(ast, env, st) ==
    LET r == Eval(ast.nodes[1], env, st)
    IN eval_call_loop(ast, 2, r.val, env, r.st)

eval_logical_or_loop(ast, i, rr, env, st) ==
    IF Failed(st) \/ i > Len(ast.nodes) THEN R(rr, st)
    ELSE LET r == Eval(ast.nodes[i], env, st)
             b == to_bool(r)
         IN IF Failed(b.st) THEN R(Unit, b.st)
            ELSE IF b.val THEN r
            ELSE eval_logical_or_loop(ast, i + 1, r.val, env, r.st)

eval_logical_or(ast, env, st) ==
    IF Len(ast.nodes) = 1 THEN Eval(ast.nodes[1], env, st)
    ELSE eval_logical_or_loop(ast, 1, Unit, env, st)

eval_logical_and_loop(ast, i, rr, env, st) ==
    IF Failed(st) \/ i > Len(ast.nodes) THEN R(rr, st)
    ELSE LET r == Eval(ast.nodes[i], env, st)
             b == to_bool(r)
         IN IF Failed(b.st) THEN R(Unit, b.st)
            ELSE IF ~b.val THEN r
            ELSE eval_logical_and_loop(ast, i + 1, r.val, env, r.st)

eval_logical_and(ast, env, st) == eval_logical_and_loop(ast, 1, Unit, env, st)

eval_condition(ast, env, st) ==
    IF Len(ast.nodes) = 1 THEN Eval(ast.nodes[1], env, st)
    ELSE LET lhs == Eval(ast.nodes[1], env, st)
             ope == to_string(Eval(ast.nodes[2], env, lhs.st))
             rhs == Eval(ast.nodes[3], env, ope.st)
         IN IF Failed(rhs.st) THEN R(Unit, rhs.st)
            ELSE IF ope.val \in {"==", "!=", "<=", "<", ">=", ">"}
            THEN Compare(ope.val, lhs.val, rhs.val, rhs.st)
            ELSE R(Unit, Throw(rhs.st, LogicError("invalid internal condition.")))

eval_unary_plus(ast, env, st) ==
    IF Len(ast.nodes) = 1 THEN Eval(ast.nodes[1], env, st)
    ELSE Eval(ast.nodes[2], env, st)

eval_unary_minus(ast, env, st) ==
    IF Len(ast.nodes) = 1 THEN Eval(ast.nodes[1], env, st)
    ELSE LET r == to_long(Eval(ast.nodes[2], env, st))
         IN IF Failed(r.st) THEN R(Unit, r.st) ELSE R(LongV(r.val * (-1)), r.st)

eval_unary_not(ast, env, st) ==
    IF Len(ast.nodes) = 1 THEN Eval(ast.nodes[1], env, st)
    ELSE LET r == to_bool(Eval(ast.nodes[2], env, st))
         IN IF Failed(r.st) THEN R(Unit, r.st) ELSE R(BoolV(~r.val), r.st)

\* `ret /= val` and `ret %= val` with val = 0 are undefined behaviour: the build may
\* trap (SIGFPE) or go on with some number; st.ub is the outcome this run gets
DivideByZero(st, acc, ope, v) ==
    IF st.ub.trap
    THEN [val |-> acc, st |-> Throw(Note(st, [k |-> "divzero", ope |-> ope]),
                                    Signal("SIGFPE"))]
    ELSE [val |-> st.ub.value, st |-> Note(st, [k |-> "divzero", ope |-> ope])]

\* lines 252-262, with i counting the children from 1
eval_bin_expression_loop(ast, i, acc, env, st) ==
    IF Failed(st) \/ i > Len(ast.nodes) THEN [val |-> acc, st |-> st]
    ELSE LET v == to_long(Eval(ast.nodes[i + 1], env, st))
             o == to_string(Eval(ast.nodes[i], env, v.st))
             ope == SubSeq(o.val, 1, 1)
             nx == CASE ope = "+" -> [val |-> acc + v.val, st |-> o.st]
                     [] ope = "-" -> [val |-> acc - v.val, st |-> o.st]
                     [] ope = "*" -> [val |-> acc * v.val, st |-> o.st]
                     [] ope = "/" -> IF v.val = 0 THEN DivideByZero(o.st, acc, ope, v.val)
                                     ELSE [val |-> TruncDiv(acc, v.val), st |-> o.st]
                     [] ope = "%" -> IF v.val = 0 THEN DivideByZero(o.st, acc, ope, v.val)
                                     ELSE [val |-> TruncRem(acc, v.val), st |-> o.st]
                     [] OTHER -> [val |-> acc, st |-> o.st]
         IN IF Failed(o.st) THEN [val |-> acc, st |-> o.st]
            ELSE eval_bin_expression_loop(ast, i + 2, nx.val, env, nx.st)

eval_bin_expression(ast, env, st) ==
    LET first == to_long(Eval(ast.nodes[1], env, st))
        r == eval_bin_expression_loop(ast, 2, first.val, env, first.st)
    IN IF Failed(r.st) THEN R(Unit, r.st) ELSE R(LongV(r.val), r.st)

\* the declaration eval_assignment made of the binding of var owned by owner, if any
DeclOf(st, owner, var) == {d \in st.decls : d.env = owner /\ d.name = var}

\* the mutated eval_assignment: always declares in the current scope
eval_assignment_redeclare(ast, env, st) ==
    LET mut == ast.nodes[1].token
        var == ast.nodes[2].token
        r == Eval(ast.nodes[3], env, st)
        owner == EnvOwner(r.st.envs, env, var)
        s2 == EnvInitialize(r.st, env, var, r.val, mut = "mut")
    IN IF Failed(r.st) THEN r
       ELSE IF owner # 0
       THEN R(r.val, Note(s2, [k |-> "assign", var |-> var, q |-> mut, env |-> env,
                               owner |-> owner, value |-> r.val,
                               decl |-> DeclOf(r.st, owner, var),
                               after |-> s2.envs[owner].dic[var],
                               ok |-> ~Failed(s2)]))
       ELSE R(r.val, [Note(s2, [k |-> "declare", var |-> var, q |-> mut, env |-> env,
                                value |-> r.val])
                      EXCEPT !.decls = @ \cup {[env |-> env, name |-> var,
                                                mut |-> (mut = "mut"),
                                                first |-> r.val]}])

\* lines 266-276
eval_assignment(ast, env, st) ==
    LET mut == ast.nodes[1].token
        var == ast.nodes[2].token
        r == Eval(ast.nodes[3], env, st)
        owner == EnvOwner(r.st.envs, env, var)
    IN IF Failed(r.st) THEN r
       ELSE IF EnvHas(r.st.envs, env, var)
       THEN LET s2 == EnvAssign(r.st, env, var, r.val)
            IN R(r.val, Note(s2, [k |-> "assign", var |-> var, q |-> mut, env |-> env,
                                  owner |-> owner, value |-> r.val,
                                  decl |-> DeclOf(r.st, owner, var),
                                  after |-> s2.envs[owner].dic[var],
                                  ok |-> ~Failed(s2)]))
       ELSE LET s2 == EnvInitialize(r.st, env, var, r.val, mut = "mut")
            IN R(r.val, [Note(s2, [k |-> "declare", var |-> var, q |-> mut, env |-> env,
                                   value |-> r.val])
                         EXCEPT !.decls = @ \cup {[env |-> env, name |-> var,
                                                   mut |-> (mut = "mut"),
                                                   first |-> r.val]}])

eval_identifier(ast, env, st) ==
    LET r == EnvGet(st, env, ast.token)
    IN R(r.val, Note(r.st, [k |-> "ident", var |-> ast.token, env |-> env,
                            local |-> (ast.token \in DOMAIN st.envs[env].dic),
                            owner |-> EnvOwner(st.envs, env, ast.token),
                            value |-> r.val]))

\* lines 286-291; emplace keeps the first value of a repeated name
eval_object_loop(ast, i, ref, env, st) ==
    IF Failed(st) \/ i > Len(ast.nodes) THEN st
    ELSE LET prop == ast.nodes[i]
             name == prop.nodes[1].token
             r == Eval(prop.nodes[2], env, st)
             o == r.st.objs[ref]
             o2 == IF name \in DOMAIN o THEN o
                   ELSE [p \in (DOMAIN o) \cup {name} |->
                            IF p = name THEN r.val ELSE o[p]]
         IN IF Failed(r.st) THEN r.st
            ELSE eval_object_loop(ast, i + 1, ref, env, [r.st EXCEPT !.objs[ref] = o2])

eval_object(ast, env, st) ==
    LET s1 == [st EXCEPT !.objs = Append(@, <<>>)]
        ref == Len(s1.objs)
        s2 == eval_object_loop(ast, 1, ref, env, s1)
    IN IF Failed(s2) THEN R(Unit, s2) ELSE R(ObjectV(ref), s2)

eval_array_loop(ast, i, ref, env, st) ==
    IF Failed(st) \/ i > Len(ast.nodes) THEN st
    ELSE LET r == Eval(ast.nodes[i], env, st)
         IN IF Failed(r.st) THEN r.st
            ELSE eval_array_loop(ast, i + 1, ref, env,
                                 [r.st EXCEPT !.objs[ref] = Append(@, r.val)])

eval_array(ast, env, st) ==
    LET s1 == [st EXCEPT !.objs = Append(@, <<>>)]
        ref == Len(s1.objs)
        s2 == eval_array_loop(ast, 1, ref, env, s1)
    IN IF Failed(s2) THEN R(Unit, s2) ELSE R(ArrayV(ref), s2)

eval_number(ast, env, st) == R(LongV(stol(ast.token)), st)

eval_bool(ast, env, st) == R(BoolV(ast.token = "true"), st)

eval_interpolated_string_loop(ast, i, s, env, st) ==
    IF Failed(st) \/ i > Len(ast.nodes) THEN R(s, st)
    ELSE LET r == Eval(ast.nodes[i], env, st)
         IN IF Failed(r.st) THEN R(s, r.st)
            ELSE eval_interpolated_string_loop(ast, i + 1, s \o ValueStr(r.val), env, r.st)

eval_interpolated_string(ast, env, st) ==
    LET r == eval_interpolated_string_loop(ast, 1, "", env, st)
    IN IF Failed(r.st) THEN R(Unit, r.st) ELSE R(StringV(r.val), r.st)

\* Eval::eval, lines 10-40.  A failure already raised unwinds every pending
\* evaluation (C++ exception propagation); each evaluation made is noted in the trace
Eval(ast, env, st) ==
    IF Failed(st) THEN R(Unit, st)
    ELSE IF st.fuel = 0 THEN R(Unit, Throw(st, Signal("stack exhausted")))
    ELSE LET s1 == [Note(st, [k |-> "eval", line |-> ast.line, env |-> env])
                    EXCEPT !.fuel = @ - 1]
         IN CASE ast.tag = "STATEMENTS" -> eval_statements(ast, env, s1)
              [] ast.tag = "WHILE" -> eval_while(ast, env, s1)
              [] ast.tag = "IF" -> eval_if(ast, env, s1)
              [] ast.tag = "FUNCTION" -> eval_function(ast, env, s1)
              [] ast.tag = "CALL" -> eval_call(ast, env, s1)
              [] ast.tag = "ASSIGNMENT" -> eval_assignment(ast, env, s1)
              [] ast.tag = "LOGICAL_OR" -> eval_logical_or(ast, env, s1)
              [] ast.tag = "LOGICAL_AND" -> eval_logical_and(ast, env, s1)
              [] ast.tag = "CONDITION" -> eval_condition(ast, env, s1)
              [] ast.tag = "UNARY_PLUS" -> eval_unary_plus(ast, env, s1)
              [] ast.tag = "UNARY_MINUS" -> eval_unary_minus(ast, env, s1)
              [] ast.tag = "UNARY_NOT" -> eval_unary_not(ast, env, s1)
              [] ast.tag \in {"ADDITIVE", "MULTIPLICATIVE"} -> eval_bin_expression(ast, env, s1)
              [] ast.tag = "IDENTIFIER" -> eval_identifier(ast, env, s1)
              [] ast.tag = "OBJECT" -> eval_object(ast, env, s1)
              [] ast.tag = "ARRAY" -> eval_array(ast, env, s1)
              [] ast.tag = "NUMBER" -> eval_number(ast, env, s1)
              [] ast.tag = "BOOLEAN" -> eval_bool(ast, env, s1)
              [] ast.tag = "INTERPOLATED_STRING" -> eval_interpolated_string(ast, env, s1)
              [] OTHER -> IF ast.is_token THEN R(StringV(ast.token), s1)
                          ELSE R(Unit, Throw(s1, LogicError("invalid Ast type")))

\* ------------------------------------------------------------------ shared ownership
\* the Environments and containers a Value keeps alive
RECURSIVE ValueRefs(_)
ValueRefs(v) ==
    CASE v.type = "Function" ->
            IF v.fn.kind = "closure" THEN [envs |-> {v.fn.env}, objs |-> {}]
            ELSE LET a == ValueRefs(v.fn.val)
                     b == ValueRefs(v.fn.pf)
                 IN [envs |-> a.envs \cup b.envs, objs |-> a.objs \cup b.objs]
      [] v.type \in {"Object", "Array"} -> [envs |-> {}, objs |-> {v.ref}]
      [] OTHER -> [envs |-> {}, objs |-> {}]

\* what the members of E and O keep alive directly
HeldBy(es, os, E, O) ==
    LET vals == {ValueRefs(es[e].dic[n].val) : <<e, n>> \in
                    UNION {{<<e, n>> : n \in DOMAIN es[e].dic} : e \in E}}
                \cup {ValueRefs(os[o][i]) : <<o, i>> \in
                          UNION {{<<o, i>> : i \in DOMAIN os[o]} : o \in O}}
    IN [envs |-> E \cup UNION {{es[e].outers[i] : i \in 1..Len(es[e].outers)} : e \in E}
                   \cup UNION {r.envs : r \in vals},
        objs |-> (O \cup {es[e].obj : e \in E} \cup UNION {r.objs : r \in vals}) \ {0}]

RECURSIVE Alive(_, _, _, _)
Alive(es, os, E, O) ==
    LET h == HeldBy(es, os, E, O)
    IN IF h.envs = E /\ h.objs = O THEN h ELSE Alive(es, os, h.envs, h.objs)

Highest(S) == IF S = {} THEN 0 ELSE CHOOSE m \in S : \A n \in S : n <= m

\* when run returns, every Environment and container that neither the root
\* Environment nor the caller's result Value keeps alive is destroyed
\* (the last shared_ptr to it is gone) and its place on the heap is free again
Release(es, os, result) ==
    LET r == ValueRefs(result)
        live == Alive(es, os, {1} \cup r.envs, r.objs)
    IN [envs |-> [e \in 1..Highest(live.envs) |->
                     IF e \in live.envs THEN es[e] ELSE EmptyEnv],
        objs |-> [o \in 1..Highest(live.objs) |->
                     IF o \in live.objs THEN os[o] ELSE <<>>],
        live |-> live.envs]

\* ------------------------------------------------------------------ run
\* the outcomes of the undefined division by zero the build may produce
UBOutcomes == {[trap |-> TRUE, value |-> 0], [trap |-> FALSE, value |-> 0],
               [trap |-> FALSE, value |-> 7]}

NoUB == [trap |-> TRUE, value |-> 0]

Parsed(ast) == [ok |-> TRUE, ast |-> ast]
ParseFailure(ln, col, err_msg) == [ok |-> FALSE, ln |-> ln, col |-> col, err_msg |-> err_msg]

\* the parser's log callback, lines 340-344
ParserLog(path, ln, col, err_msg) ==
    path \o ":" \o NatStr(ln) \o ":" \o NatStr(col) \o ": " \o err_msg \o "\n"

\* run, lines 326-359, on the root Environment envs[1]; parsed is what parse_n gives.
\* ret is "true"/"false" for the value returned, "uncaught" when an exception that
\* is no runtime_error leaves run, "crash" when the process is killed
run(path, parsed, ub) ==
    IF parsed.ok
    THEN LET st0 == [envs |-> envs, objs |-> objs, log |-> <<>>, err |-> NoError,
                     fuel |-> MaxFuel, ub |-> ub, decls |-> decls]
             r == Eval(parsed.ast, 1, st0)
             e == r.st.err
             result == IF e.kind = "none" THEN r.val ELSE val
             heap == Release(r.st.envs, r.st.objs, result)
         IN /\ envs' = heap.envs
            /\ objs' = heap.objs
            /\ log' = r.st.log
            /\ decls' = {d \in r.st.decls : d.env \in heap.live}
            /\ val' = result
            /\ msg' = IF e.kind = "runtime_error" THEN e.what ELSE msg
            /\ ret' = CASE e.kind = "none" -> "true"
                        [] e.kind = "runtime_error" -> "false"
                        [] e.kind = "logic_error" -> "uncaught"
                        [] OTHER -> "crash"
            /\ err' = e
            /\ prog' = parsed
            /\ runs' = runs + 1
    ELSE /\ msg' = ParserLog(path, parsed.ln, parsed.col, parsed.err_msg)
         /\ ret' = "false"
         /\ log' = <<>>
         /\ err' = NoError
         /\ prog' = parsed
         /\ runs' = runs + 1
         /\ UNCHANGED <<envs, objs, val, decls>>

\* ------------------------------------------------------------------ trees
Num(n, line) == Token("NUMBER", NatStr(n), line)
Bool(b, line) == Token("BOOLEAN", IF b THEN "true" ELSE "false", line)
Ident(name, line) == Token("IDENTIFIER", name, line)
Op(s) == Token("OPERATOR", s, 0)
Stmts(nodes, line) == Node("STATEMENTS", nodes, line)
Assign(q, name, e, line) ==
    Node("ASSIGNMENT", <<Token("MUTABLE", q, 0), Token("IDENTIFIER", name, 0), e>>, line)
Param(name, mut) ==
    Node("PARAMETER", <<Token("MUTABLE", IF mut THEN "mut" ELSE "", 0),
                        Token("IDENTIFIER", name, 0)>>, 0)
Fn(params, body, line) ==
    Node("FUNCTION", <<Node("PARAMETERS", params, 0), body>>, line)
Args(es) == Node("ARGUMENTS", es, 0)
Index(e) == Postfix("INDEX", e)
Dot(name) == Postfix("DOT", Token("IDENTIFIER", name, 0))
Call(primary, steps, line) == Node("CALL", <<primary>> \o steps, line)
Property(name, e) == Node("PROPERTY", <<Token("IDENTIFIER", name, 0), e>>, 0)
Object(props, line) == Node("OBJECT", props, line)
Array(es, line) == Node("ARRAY", es, line)
Neg(e, line) == Node("UNARY_MINUS", <<Op("-"), e>>, line)
Bin(tag, a, o, b, line) == Node(tag, <<a, Op(o), b>>, line)
Cond(a, o, b, line) == Node("CONDITION", <<a, Op(o), b>>, line)

Init ==
    /\ envs = <<EmptyEnv>>
    /\ objs = <<>>
    /\ val = Unit
    /\ msg = ""
    /\ ret = "none"
    /\ err = NoError
    /\ log = <<>>
    /\ decls = {}
    /\ prog = ParseFailure(0, 0, "")
    /\ runs = 0

\* ------------------------------------------------------------------ assignments
Names == {"x", "y"}
Qualifiers == {"mut", ""}
MaxRuns == 2
MaxValue == 2

\* q x = n
Assignments ==
    {Assign(q, x, Num(n, 2), 1) :
        q \in Qualifiers, x \in Names, n \in 1..MaxValue}

\* fn() { q x = n }()
AssignmentsInFunction ==
    {Call(Fn(<<>>, Assign(q, x, Num(n, 2), 1), 3),
          <<Args(<<>>)>>, 4) :
        q \in Qualifiers, x \in Names, n \in 1..MaxValue}

\* fn(f) { fn(z) { f() }(0) }(fn() { q x = n }): the assigning function is defined
\* in the root scope and called from a scope that is not on its defining chain
AssignmentsFromCallee ==
    {Call(
          Fn(<<Param("f", FALSE)>>,
             Call(Fn(<<Param("z", FALSE)>>, Call(Ident("f", 5), <<Args(<<>>)>>, 6), 7),
                  <<Args(<<Num(0, 8)>>)>>, 9), 10),
          <<Args(<<Fn(<<>>, Assign(q, x, Num(n, 2), 1), 3)>>)>>, 4) :
        q \in Qualifiers, x \in Names, n \in 1..MaxValue}

\* fn() { q1 x = 1; fn() { q2 x = n }(); x }(): a binding of a call scope reached
\* from a closure defined in it
AssignmentsLocal ==
    {Call(Fn(<<>>, Stmts(<<
          Assign(q1, x, Num(1, 2), 1),
          Call(Fn(<<>>, Assign(q2, x, Num(n, 12), 11), 13), <<Args(<<>>)>>, 14),
          Ident(x, 15)>>, 16), 17), <<Args(<<>>)>>, 18) :
        q1 \in Qualifiers, q2 \in Qualifiers, x \in Names, n \in 1..MaxValue}

AssignPrograms ==
    Assignments \cup AssignmentsInFunction \cup AssignmentsFromCallee \cup AssignmentsLocal

\* run is called on the text of one of the programs
RunAssign ==
    /\ runs < MaxRuns
    /\ \E p \in AssignPrograms : run("a", Parsed(p), NoUB)

SpecAssign == Init /\ [][RunAssign]_vars

Events(kind) == {i \in 1..Len(log) : log[i].k = kind}

\* C2: a binding eval_assignment declared with `mut` accepts every later assignment
\* that reaches it; a binding it declared without `mut` is never rebound: every later
\* assignment reaching it, from whatever scope and with whatever qualifier, fails with
\* ImmutableBinding and the binding keeps its first value
C2_ImmutableNeverRebound ==
    /\ \A d \in decls :
          /\ d.name \in DOMAIN envs[d.env].dic
          /\ envs[d.env].dic[d.name].mut = d.mut
          /\ ~d.mut => envs[d.env].dic[d.name].val = d.first
    /\ \A i \in Events("assign") : \A d \in log[i].decl :
          IF d.mut
          THEN log[i].ok /\ log[i].after = [val |-> log[i].value, mut |-> TRUE]
          ELSE /\ ~log[i].ok
               /\ log[i].after = [val |-> d.first, mut |-> FALSE]
               /\ i = Len(log)
               /\ err = ImmutableBinding
               /\ ret = "false"

\* an assignment qualified `mut`, made in a call scope, that reached an immutable
\* binding of the root scope declared by an earlier run, and failed
C2_Witness ==
    /\ \E i \in Events("assign") :
          /\ log[i].q = "mut"
          /\ log[i].env # log[i].owner
          /\ log[i].owner = 1
          /\ \E d \in log[i].decl : ~d.mut /\ log[i].value # d.first
    /\ err = ImmutableBinding
    /\ ret = "false"

\* a mutable binding of the root scope that a later run gave a new value
C2_WitnessMutable ==
    \E d \in decls : d.mut /\ d.env = 1 /\ envs[d.env].dic[d.name].val # d.first

\* the Environments on the lookup chain of e
RECURSIVE EnvChain(_, _)
EnvChain(es, e) ==
    {e} \cup UNION {EnvChain(es, es[e].outers[i]) : i \in 1..Len(es[e].outers)}

\* the call, body-start and return events of one and the same call
Calls ==
    {c \in Events("call") \X Events("body") \X Events("return") :
        /\ log[c[2]].callEnv = log[c[1]].callEnv
        /\ log[c[3]].callEnv = log[c[1]].callEnv}

\* C10: a function body adds no name to the caller's Environment nor to an
\* Environment of its defining chain; there only the value of an already bound
\* mutable name may differ after the body has run
C10_BodyAddsNoOuterName ==
    \A c \in Calls :
        LET before == log[c[2]].heap
            after == log[c[3]].heap
        IN \A e \in {log[c[1]].caller} \cup EnvChain(before, log[c[2]].def) :
              /\ DOMAIN after[e].dic = DOMAIN before[e].dic
              /\ \A n \in DOMAIN before[e].dic :
                    after[e].dic[n] # before[e].dic[n] =>
                        /\ before[e].dic[n].mut
                        /\ after[e].dic[n].mut

\* a body that declared a name of its own, and a body that gave a new value to a
\* mutable name of its defining Environment
C10_Witness ==
    /\ \E c \in Calls :
          DOMAIN log[c[3]].heap[log[c[1]].callEnv].dic
              # DOMAIN log[c[2]].heap[log[c[1]].callEnv].dic
    /\ \E c \in Calls : \E n \in DOMAIN log[c[2]].heap[log[c[2]].def].dic :
          log[c[3]].heap[log[c[2]].def].dic[n] # log[c[2]].heap[log[c[2]].def].dic[n]

\* ------------------------------------------------------------------ calls
MaxArgs == 3
ParamLists ==
    {<<>>, <<Param("a", FALSE)>>, <<Param("a", FALSE), Param("b", TRUE)>>,
     <<Param("self", FALSE)>>, <<Param("self", TRUE), Param("a", FALSE)>>}

NumberArgs(n) == [i \in 1..n |-> Num(i, 10 + i)]
NameArgs(n) == [i \in 1..n |-> Ident("f", 10 + i)]

\* fn(ps) { self }(1, .., n)
DirectCalls ==
    {Call(Fn(ps, Ident("self", 20), 21),
          <<Args(NumberArgs(n))>>, 22) :
        ps \in ParamLists, n \in 0..MaxArgs}

\* fn(f) { f(f, .., f) }(fn(ps) { self }): the arguments name a binding that only
\* the caller's scope holds
CallsFromFunction ==
    {Call(
          Fn(<<Param("f", FALSE)>>,
             Call(Ident("f", 25), <<Args(NameArgs(n))>>, 22), 23),
          <<Args(<<Fn(ps, Ident("self", 20), 21)>>)>>, 24) :
        ps \in ParamLists, n \in 0..MaxArgs}

Countdown ==
    Fn(<<Param("n", TRUE)>>,
       Node("IF", <<Cond(Ident("n", 51), "==", Num(0, 52), 53),
                    Num(0, 54),
                    Call(Ident("self", 55),
                         <<Args(<<Bin("ADDITIVE", Ident("n", 56), "-", Num(1, 57), 58)>>)>>,
                         59)>>, 60), 61)

\* fn(mut n) { if (n == 0) { 0 } else { self(n - 1) } }(k)
SelfRecursions ==
    {Call(Countdown, <<Args(<<Num(k, 62)>>)>>, 63) :
        k \in {0, 1, 2}}

\* mut x = d; mut f = fn() { x }; fn(x) { f(); f() }(c): f is defined in the root
\* scope and called from a scope that binds its own x
Closures ==
    {Stmts(<<
          Assign("mut", "x", Num(d, 26), 27),
          Assign("mut", "f", Fn(<<>>, Ident("x", 30), 31), 28),
          Call(Fn(<<Param("x", FALSE)>>,
                  Stmts(<<Call(Ident("f", 29), <<Args(<<>>)>>, 32),
                          Call(Ident("f", 29), <<Args(<<>>)>>, 33)>>, 34), 35),
               <<Args(<<Num(c, 36)>>)>>, 37)>>, 38) :
        d \in {1, 2}, c \in {1, 3}}

\* fn(g) { fn(x) { g() }(c) }(fn(x) { fn() { x } }(d)): g is defined in a call scope
\* and called from another call scope that binds its own x
ClosureFactories ==
    {Call(
          Fn(<<Param("g", FALSE)>>,
             Call(Fn(<<Param("x", FALSE)>>,
                     Call(Ident("g", 29), <<Args(<<>>)>>, 32), 34),
                  <<Args(<<Num(c, 36)>>)>>, 37), 39),
          <<Args(<<Call(Fn(<<Param("x", FALSE)>>,
                           Fn(<<>>, Ident("x", 30), 31), 40),
                        <<Args(<<Num(d, 26)>>)>>, 41)>>)>>, 42) :
        d \in {1, 2}, c \in {1, 3}}

\* the evaluations, among log[from..to], of the nodes on `lines` in Environment e
EvaluatedIn(from, to, lines, e) ==
    LET Hit(ev) == ev.k = "eval" /\ ev.env = e /\ ev.line \in lines
        hits == SelectSeq(SubSeq(log, from, to), Hit)
    IN [m \in 1..Len(hits) |-> hits[m].line]

Range(f) == {f[i] : i \in DOMAIN f}

\* where the body of the call noted at log[i] starts, and where the call returns;
\* past the end of the trace if the run failed before
BodyStart(i) ==
    LET S == {b \in Events("body") : log[b].callEnv = log[i].callEnv}
    IN IF S = {} THEN Len(log) + 1 ELSE CHOOSE b \in S : TRUE
Return(i) ==
    LET S == {j \in Events("return") : log[j].callEnv = log[i].callEnv}
    IN IF S = {} THEN Len(log) + 1 ELSE CHOOSE j \in S : TRUE

\* C1: a call with p parameters and n arguments: if n >= p the body is entered after
\* exactly the first p arguments have been evaluated, once each, in order, in the
\* caller's Environment, and the other n - p are not evaluated at all; if n < p the
\* call fails with ArgumentError and neither an argument nor the body is evaluated
C1_ArityAndArguments ==
    /\ \A i \in Events("call") :
          LET p == log[i].params
              args == log[i].args
          IN /\ p <= Len(args)
             /\ BodyStart(i) <= Len(log)
             /\ EvaluatedIn(i + 1, BodyStart(i) - 1, Range(args), log[i].caller)
                   = SubSeq(args, 1, p)
             /\ EvaluatedIn(BodyStart(i), Return(i) - 1,
                            Range(SubSeq(args, p + 1, Len(args))), log[i].caller) = <<>>
    /\ \A i \in Events("arity") :
          /\ log[i].params > Len(log[i].args)
          /\ i = Len(log)
          /\ err = ArgumentError
          /\ ret = "false"
          /\ msg = "arguments error..."
          /\ \A m \in 1..(i - 1) :
                (log[m].k = "eval" /\ log[m].line \in Range(log[i].args)) =>
                    \E m2 \in (m + 1)..(i - 1) :
                        log[m2].k = "eval" /\ log[m2].line = log[i].line

\* a call with more arguments than parameters whose body ran, made from a call scope
C1_Witness ==
    \E i \in Events("call") :
        /\ log[i].params > 0
        /\ Len(log[i].args) > log[i].params
        /\ log[i].caller # 1
        /\ Return(i) <= Len(log)

\* a call with fewer arguments than parameters
C1_WitnessTooFew ==
    \E i \in Events("arity") : log[i].args # <<>> /\ log[i].caller # 1

\* the binding of `self` in the call Environment when the body of call c starts
SelfAtBodyStart(c) == log[c[2]].heap[log[c[1]].callEnv].dic["self"]

SelfParams(c) ==
    {k \in 1..Len(log[c[1]].fn.params) : log[c[1]].fn.params[k].name = "self"}

Started == {c \in Events("call") \X Events("body") : log[c[2]].callEnv = log[c[1]].callEnv}

\* C9 as stated: when the body starts, `self` is an immutable binding to the function
\* being called, whatever the parameter list
C9_SelfIsCallee ==
    \A c \in Started : SelfAtBodyStart(c) = [val |-> log[c[1]].fn, mut |-> FALSE]

\* C9 as amended: so it is for every parameter list that declares no parameter named
\* `self`; a parameter named `self` takes the name: `self` is then bound to that
\* parameter's argument, with that parameter's mutability
C9_SelfIsCalleeUnlessParameter ==
    \A c \in Started :
        IF SelfParams(c) = {}
        THEN SelfAtBodyStart(c) = [val |-> log[c[1]].fn, mut |-> FALSE]
        ELSE \E m \in Events("bind") :
                /\ log[m].callEnv = log[c[1]].callEnv
                /\ log[m].iprm = Highest(SelfParams(c))
                /\ SelfAtBodyStart(c) = [val |-> log[m].value, mut |-> log[m].mut]

\* a body that called `self` and so entered the same function again
C9_Witness ==
    \E c \in Started, d \in Started :
        /\ log[d[1]].caller = log[c[1]].callEnv
        /\ log[d[1]].fn = log[c[1]].fn
        /\ SelfParams(c) = {}
        /\ \E m \in Events("ident") :
              log[m].var = "self" /\ log[m].env = log[c[1]].callEnv
                  /\ log[m].value = log[c[1]].fn

\* C3: an identifier evaluated in the call Environment of a function resolves to the
\* call-local binding if there is one, and otherwise to the binding the defining
\* Environment resolves it to; never to a binding that only the caller's chain holds
C3_ClosureResolvesInDefiningScope ==
    \A c \in Started : \A m \in Events("ident") :
        log[m].env = log[c[1]].callEnv =>
            LET heap == log[c[2]].heap
                def == log[c[2]].def
            IN /\ log[m].owner =
                     IF log[m].local THEN log[m].env
                     ELSE EnvOwner(heap, def, log[m].var)
               /\ log[m].owner \in {0, log[m].env} \cup EnvChain(heap, def)
               /\ (~log[m].local /\ log[m].owner # 0) =>
                     log[m].value = heap[log[m].owner].dic[log[m].var].val

\* a free variable resolved in the defining chain while the caller's Environment,
\* which is not on that chain, binds the same name to another value
C3_Witness ==
    \E c \in Started : \E m \in Events("ident") :
        LET heap == log[c[2]].heap
            caller == log[c[1]].caller
        IN /\ log[m].env = log[c[1]].callEnv
           /\ ~log[m].local
           /\ log[m].owner # 0
           /\ log[m].owner # 1
           /\ caller \notin EnvChain(heap, log[c[2]].def)
           /\ log[m].var \in DOMAIN heap[caller].dic
           /\ heap[caller].dic[log[m].var].val # log[m].value
           /\ ret = "true"
           /\ val = log[m].value

CallPrograms ==
    DirectCalls \cup CallsFromFunction \cup SelfRecursions \cup Closures \cup ClosureFactories

RunCall ==
    /\ runs < MaxRuns
    /\ \E p \in CallPrograms : run("c", Parsed(p), NoUB)

SpecCall == Init /\ [][RunCall]_vars

\* ------------------------------------------------------------------ methods
MaxRebinds == 2
MethodParamLists ==
    {<<>>, <<Param("a", FALSE)>>, <<Param("this", FALSE)>>,
     <<Param("a", FALSE), Param("this", TRUE)>>}

\* { id: 1, m: fn(ps) { this } }
Receiver(ps) ==
    Object(<<Property("id", Num(1, 70)), Property("m", Fn(ps, Ident("this", 71), 72))>>, 73)

\* { id: k + 1, m: <the receiver rebound k - 1 times>.m }
RECURSIVE Rebound(_, _)
Rebound(ps, k) ==
    IF k = 0 THEN Receiver(ps)
    ELSE Object(<<Property("id", Num(k + 1, 70)),
                  Property("m", Call(Rebound(ps, k - 1), <<Dot("m")>>, 74))>>, 75 + k)

\* { id: 1, m: fn(ps) { this } }.m(1, .., n)
MethodCallPrograms ==
    {Call(Receiver(ps),
          <<Dot("m"), Args(NumberArgs(Len(ps) + extra))>>, 79) :
        ps \in MethodParamLists, extra \in {0, 1}}

\* { id: 2, m: { id: 1, m: fn(ps) { this } }.m }.m(1, .., n), and deeper
ReboundMethodCalls ==
    {Call(Rebound(ps, k),
          <<Dot("m"), Args(NumberArgs(Len(ps)))>>, 79) :
        ps \in MethodParamLists, k \in 1..MaxRebinds}

\* mut o = { id: 1, m: fn(ps) { this } }; mut p = o; o.m(1, .., n)
AliasMethodCalls ==
    {Stmts(<<
          Assign("mut", "o", Receiver(ps), 80),
          Assign("mut", "p", Ident("o", 81), 82),
          Call(Ident("o", 83), <<Dot("m"), Args(NumberArgs(Len(ps)))>>, 79)>>, 84) :
        ps \in MethodParamLists}

\* { id: 1, m: fn() { this } }.name, and p.name on the alias of an earlier run
PropertyReads ==
    {Call(IF alias THEN Ident("p", 85) ELSE Receiver(<<>>),
          <<Dot(name)>>, 86) :
        name \in {"id", "m", "none"}, alias \in BOOLEAN}

MethodPrograms ==
    MethodCallPrograms \cup ReboundMethodCalls \cup AliasMethodCalls \cup PropertyReads

RunMethod ==
    /\ runs < MaxRuns
    /\ \E p \in MethodPrograms : run("m", Parsed(p), NoUB)

SpecMethod == Init /\ [][RunMethod]_vars

\* a DOT step that found a Function, directly followed by the call of what it made,
\* with the start of the body
MethodCalls ==
    {c \in Events("dot") \X Events("body") :
        /\ log[c[1]].prop.type = "Function"
        /\ c[1] < Len(log)
        /\ log[c[1] + 1].k = "call"
        /\ log[c[2]].callEnv = log[c[1] + 1].callEnv}

ThisAtBodyStart(c) == log[c[2]].heap[log[c[2]].callEnv]

\* the receiver a property value was first rebound from; recv if it never was
RECURSIVE FirstReceiver(_, _)
FirstReceiver(recv, prop) ==
    IF prop.fn.kind = "method" THEN FirstReceiver(prop.fn.val, prop.fn.pf) ELSE recv

\* C5 as stated: in the body of a function got by a DOT step and called, `this` is an
\* immutable binding to the receiver of that DOT step (the Object itself, attached
\* to the call Environment), also when the property was rebound from another receiver
C5_ThisIsReceiver ==
    \A c \in MethodCalls :
        /\ "this" \in DOMAIN ThisAtBodyStart(c).dic
        /\ ThisAtBodyStart(c).dic["this"] = [val |-> log[c[1]].recv, mut |-> FALSE]
        /\ log[c[1]].recv.type = "Object" => ThisAtBodyStart(c).obj = log[c[1]].recv.ref

\* C5 as amended: so it is when the property is not itself a rebound function; a
\* property that was rebound from another receiver keeps the receiver it was first
\* rebound from
C5_ThisIsFirstReceiver ==
    \A c \in MethodCalls :
        LET recv == FirstReceiver(log[c[1]].recv, log[c[1]].prop)
        IN /\ "this" \in DOMAIN ThisAtBodyStart(c).dic
           /\ ThisAtBodyStart(c).dic["this"] = [val |-> recv, mut |-> FALSE]
           /\ recv.type = "Object" => ThisAtBodyStart(c).obj = recv.ref

\* a method that declares a parameter named `this`, called on an Object that the
\* root scope holds under two names: `this` is that very Object
C5_Witness ==
    \E c \in MethodCalls :
        /\ \E k \in 1..Len(log[c[1]].prop.params) : log[c[1]].prop.params[k].name = "this"
        /\ log[c[1]].prop.fn.kind = "closure"
        /\ {"o", "p"} \subseteq DOMAIN envs[1].dic
        /\ envs[1].dic["o"].val = log[c[1]].recv
        /\ envs[1].dic["p"].val = log[c[1]].recv
        /\ ret = "true"
        /\ val = envs[1].dic["p"].val
\* ------------------------------------------------------------------ indexing
MaxIndex == 2
Indices == -1..MaxIndex
IndexExpr(k) == IF k < 0 THEN Neg(Num(-k, 90), 91) ELSE Num(k, 90)

\* [[5, 6], 7], [[5, 6], [7]] and [[], [7]]
Arrays ==
    {Array(<<Array(<<Num(5, 92), Num(6, 93)>>, 94), Num(7, 95)>>, 96),
     Array(<<Array(<<Num(5, 92), Num(6, 93)>>, 94), Array(<<Num(7, 95)>>, 97)>>, 96),
     Array(<<Array(<<>>, 94), Array(<<Num(7, 95)>>, 97)>>, 96)}

\* a[i]
SingleIndexes ==
    {Call(a, <<Index(IndexExpr(i))>>, 98) :
        a \in Arrays, i \in Indices}

\* a[i][j]
IndexChains ==
    {Call(a, <<Index(IndexExpr(i)), Index(IndexExpr(j))>>, 98) :
        a \in Arrays, i \in Indices, j \in Indices}

IndexPrograms == SingleIndexes \cup IndexChains

RunIndex ==
    /\ runs < MaxRuns
    /\ \E p \in IndexPrograms : run("i", Parsed(p), NoUB)

SpecIndex == Init /\ [][RunIndex]_vars

\* the INDEX steps taken, in order, and the steps of the chain that was run
IndexSteps == SelectSeq(log, LAMBDA e : e.k = "index")
ChainSteps == IF prog.ok /\ prog.ast.tag = "CALL" THEN Len(prog.ast.nodes) - 1 ELSE 0
InRange(e) == 0 <= e.idx /\ e.idx < Len(e.elems)

\* C4: an INDEX step on an Array with an index outside [0, length) raises no error
\* and leaves the running value the array itself, which the next step is applied to
\* (and which is the result after the last step); an index inside [0, length) makes
\* the running value the element at that index
C4_IndexOutOfRangeKeepsArray ==
    \A k \in 1..Len(IndexSteps) :
        LET e == IndexSteps[k]
        IN /\ InRange(e) => e.after = e.elems[e.idx + 1]
           /\ ~InRange(e) => e.after = e.arr
           /\ ~InRange(e) /\ k < ChainSteps =>
                 /\ Len(IndexSteps) > k
                 /\ IndexSteps[k + 1].arr = e.arr
           /\ k = ChainSteps => ret = "true" /\ val = e.after

\* a chain whose first index is out of range and whose second is in range of the
\* same array: the result is an element of that array
C4_Witness ==
    /\ Len(IndexSteps) = 2
    /\ ~InRange(IndexSteps[1])
    /\ IndexSteps[1].idx > 0
    /\ InRange(IndexSteps[2])
    /\ IndexSteps[2].arr = IndexSteps[1].arr
    /\ ret = "true"
    /\ val = IndexSteps[2].elems[IndexSteps[2].idx + 1]

\* a negative index as the last step: the result is the array
C4_WitnessNegative ==
    /\ Len(IndexSteps) = ChainSteps
    /\ Len(IndexSteps) > 0
    /\ IndexSteps[Len(IndexSteps)].idx < 0
    /\ val = IndexSteps[Len(IndexSteps)].arr

\* ------------------------------------------------------------------ arithmetic
Operators == {"+", "-", "*", "/", "%"}

\* 7 o1 b o2 2, no divisor zero
Arithmetic ==
    {Node("MULTIPLICATIVE",
          <<Num(7, 100), Op(o1), Num(b, 101), Op(o2), Num(2, 102)>>,
          103) :
        o1 \in Operators, o2 \in Operators, b \in 1..MaxValue}

\* 7 / 0 o 2 and 7 o 2 / 0, also with %: the build's division by zero does what it does
DivisionsByZero ==
    {Node("MULTIPLICATIVE",
          IF first
          THEN <<Num(7, 100), Op(d), Num(0, 101), Op(o), Num(2, 102)>>
          ELSE <<Num(7, 100), Op(o), Num(2, 101), Op(d), Num(0, 102)>>,
          103) :
        d \in {"/", "%"}, o \in {"+", "/"}, first \in BOOLEAN}

ArithmeticPrograms == Arithmetic \cup DivisionsByZero

\* the build's division by zero does what it does; a killed process runs no more
RunArithmetic ==
    /\ runs < MaxRuns
    /\ ret # "crash"
    /\ \E p \in ArithmeticPrograms, ub \in UBOutcomes : run("a", Parsed(p), ub)

SpecArithmetic == Init /\ [][RunArithmetic]_vars

\* C6: a `/` or `%` whose right operand is 0 is rejected with a reported evaluation
\* error (run returns false with the failure's description), at whatever position of
\* the fold, rather than crashing or producing a value
C6_DivisionByZeroRejected ==
    Events("divzero") # {} =>
        /\ ret = "false"
        /\ err.kind = "runtime_error"
        /\ msg = err.what

\* a division by zero that went on with a number and gave run a result
C6_Witness ==
    /\ Events("divzero") # {}
    /\ ret = "true"
    /\ val.type = "Long"

\* ------------------------------------------------------------------ if
MaxPairs == 3
Conditions(p) == [1..p -> BOOLEAN]

\* if (c1) { 1 } else if (c2) { 2 } .. [else { 0 }]; a condition that is no Boolean
\* is the number 9
IfTree(p, c, bad, default) ==
    Node("IF",
         [i \in 1..(2 * p + (IF default THEN 1 ELSE 0)) |->
             IF i = 2 * p + 1 THEN Num(0, 130)
             ELSE IF i % 2 = 0 THEN Num(i \div 2, 120 + (i \div 2))
             ELSE IF (i + 1) \div 2 = bad THEN Num(9, 110 + ((i + 1) \div 2))
             ELSE Bool(c[(i + 1) \div 2], 110 + ((i + 1) \div 2))],
         140)

BooleanIfs ==
    UNION {{IfTree(p, c, 0, default) : c \in Conditions(p), default \in BOOLEAN} :
              p \in 1..MaxPairs}

\* the first bad - 1 conditions are false and condition bad is the number 9
NotBooleanIfs ==
    UNION {{IfTree(p, [i \in 1..p |-> i > bad], bad, default) :
               bad \in 1..p, default \in BOOLEAN} : p \in 1..MaxPairs}

IfPrograms == BooleanIfs \cup NotBooleanIfs

RunIf ==
    /\ runs < MaxRuns
    /\ \E p \in IfPrograms : run("f", Parsed(p), NoUB)

SpecIf == Init /\ [][RunIf]_vars

\* the children of the IF node that was run, and those evaluated, in order
IfNodes == IF prog.ok /\ prog.ast.tag = "IF" THEN prog.ast.nodes ELSE <<>>
IfPairs == Len(IfNodes) \div 2
IfHasDefault == Len(IfNodes) % 2 = 1
IfAllBoolean == \A i \in 1..IfPairs : IfNodes[2 * i - 1].tag = "BOOLEAN"
IfTrue(i) == IfNodes[2 * i - 1].token = "true"
FirstTrue ==
    IF \E i \in 1..IfPairs : IfTrue(i)
    THEN CHOOSE i \in 1..IfPairs : IfTrue(i) /\ \A j \in 1..(i - 1) : ~IfTrue(j)
    ELSE 0
Evaluated == [i \in 1..Len(log) - 1 |-> log[i + 1].line]

\* C8: the conditions are evaluated left to right up to the first true one, exactly
\* its consequence is evaluated and returned; with no true condition the trailing
\* default is evaluated and returned if there is one, and otherwise Unit is returned
\* with no branch evaluated; nothing else is evaluated
C8_IfSelectsFirstTrue ==
    IfNodes # <<>> /\ IfAllBoolean =>
        /\ ret = "true"
        /\ \A e \in 1..Len(log) : log[e].k = "eval"
        /\ IF FirstTrue > 0
           THEN /\ Evaluated = [i \in 1..(FirstTrue + 1) |->
                                   IF i <= FirstTrue THEN IfNodes[2 * i - 1].line
                                   ELSE IfNodes[2 * FirstTrue].line]
                /\ val = LongV(stol(IfNodes[2 * FirstTrue].token))
           ELSE IF IfHasDefault
           THEN /\ Evaluated = [i \in 1..(IfPairs + 1) |->
                                   IF i <= IfPairs THEN IfNodes[2 * i - 1].line
                                   ELSE IfNodes[Len(IfNodes)].line]
                /\ val = LongV(stol(IfNodes[Len(IfNodes)].token))
           ELSE /\ Evaluated = [i \in 1..IfPairs |-> IfNodes[2 * i - 1].line]
                /\ val = Unit

\* false, true, true with a default: the second consequence is the result
C8_Witness ==
    /\ IfPairs = 3
    /\ IfHasDefault
    /\ IfAllBoolean
    /\ FirstTrue = 2
    /\ IfTrue(3)
    /\ val = LongV(2)

\* no condition true and no default: Unit
C8_WitnessUnit ==
    /\ IfPairs = 2
    /\ ~IfHasDefault
    /\ IfAllBoolean
    /\ FirstTrue = 0
    /\ ret = "true"
    /\ val = Unit
\* ------------------------------------------------------------------ failures
MaxStatements == 3
FailureKinds ==
    {"TypeMismatch", "UnboundName", "ImmutableBinding", "ArgumentError",
     "InvalidAst", "InvalidPostfix", "InvalidOperator"}

\* an expression whose evaluation fails in the given way
Failing(kind) ==
    CASE kind = "TypeMismatch" -> Neg(Bool(TRUE, 150), 151)
      [] kind = "UnboundName" -> Ident("zz", 150)
      [] kind = "ImmutableBinding" ->
            Call(Fn(<<Param("a", FALSE)>>, Assign("", "a", Num(1, 150), 151), 152),
                 <<Args(<<Num(1, 153)>>)>>, 154)
      [] kind = "ArgumentError" ->
            Call(Fn(<<Param("a", FALSE)>>, Ident("a", 150), 151), <<Args(<<>>)>>, 154)
      [] kind = "InvalidAst" -> Node("PROGRAM", <<>>, 150)
      [] kind = "InvalidPostfix" -> Call(Num(1, 150), <<Postfix("SLICE", Num(0, 151))>>, 154)
      [] kind = "InvalidOperator" -> Cond(Num(1, 150), "~", Num(2, 151), 154)

\* mut x = 1; ..; <failing>; mut after = pos + 1; ..
FailingStatements(kind, pos) ==
    [i \in 1..MaxStatements |->
        IF i < pos THEN Assign("mut", "x", Num(i, 155), 160 + i)
        ELSE IF i = pos THEN Failing(kind)
        ELSE Assign("mut", "after", Num(i, 155), 160 + i)]

FailingPrograms ==
    {Stmts(FailingStatements(kind, pos), 170) :
        kind \in FailureKinds, pos \in 1..MaxStatements}

\* fn() { <failing>; mut after = 1 }(); mut after = 2
FailingInFunction ==
    {Stmts(<<
          Call(Fn(<<>>, Stmts(<<Failing(kind),
                                Assign("mut", "after", Num(1, 155), 161)>>, 171), 172),
               <<Args(<<>>)>>, 173),
          Assign("mut", "after", Num(2, 155), 162)>>, 170) :
        kind \in FailureKinds}

\* mut x = 1; ..; mut x = n
StatementPrograms ==
    {Stmts([i \in 1..n |-> Assign("mut", "x", Num(i, 155), 160 + i)],
          170) :
        n \in 0..MaxStatements}

\* the text does not parse: the parser reports where and why through its log
ParseFailures == {ParseFailure(ln, col, "syntax error") : ln \in 1..2, col \in {1, 12}}

Texts ==
    {Parsed(p) : p \in FailingPrograms \cup FailingInFunction \cup StatementPrograms}
        \cup ParseFailures

RunFailure ==
    /\ runs < MaxRuns
    /\ \E parsed \in Texts : run("e", parsed, NoUB)

SpecFailure == Init /\ [][RunFailure]_vars

\* the statements after a failing one all assign the name `after`
AfterEvaluated ==
    \/ \E i \in Events("declare") \cup Events("assign") : log[i].var = "after"
    \/ \E e \in 1..Len(envs) : "after" \in DOMAIN envs[e].dic

\* C7: whatever the kind of failure raised inside Eval::eval, run returns false with
\* msg the failure's description, leaves the caller's result value as it was, and
\* evaluates no statement after the failing one
C7_EveryFailureReported ==
    [][err'.kind # "none" =>
          /\ ret' = "false"
          /\ msg' = err'.what
          /\ val' = val
          /\ ~AfterEvaluated']_vars

\* a failure that run reports: false, the description in msg, the statements before
\* the failing one evaluated and none after it
C7_Witness ==
    /\ err = ImmutableBinding
    /\ ret = "false"
    /\ msg = "ImmutableBinding"
    /\ "x" \in DOMAIN envs[1].dic
    /\ ~AfterEvaluated

\* a failure that leaves run as an exception it does not catch
C7_WitnessUncaught ==
    /\ err = LogicError("invalid Ast type")
    /\ ret = "uncaught"
    /\ msg # err.what
====
